---- MODULE Spec2Model ----
(***************************************************************************)
(* Model of libyang's output sink (src/src/printer.c): struct lyp_out, its *)
(* direct write path (lyp_write, lyp_print), the hole mechanism            *)
(* (ly_write_skip, ly_write_skipped) and its lifecycle operations          *)
(* (lyp_out_reset, ly_print_flush, lyp_memory, lyp_free).                  *)
(*                                                                         *)
(* The sink, the real target it is bound to and the resources around it    *)
(* are one record; every C function is an operator from that record and    *)
(* the call's inputs (arguments and the answers of the environment: the    *)
(* target's responses, the allocator) to the record after the call and     *)
(* the returned value.                                                     *)
(***************************************************************************)
EXTENDS Integers, Sequences, FiniteSets, TLC

(* ------------------------------- bounds -------------------------------- *)
MaxLen == 2     \* longest single write / reservation / backfill
MaxOut == 2     \* most bytes one sink holds, has passed on or has counted
MaxRetry == 1   \* most would-block answers before the target's final answer
MaxTrip == 3    \* most bytes a sink of the round-trip comparison holds

\* the byte values: 0 (also the NUL terminator) and one other
Byte == {0, 1}

RECURSIVE SeqsOfLen(_)
SeqsOfLen(n) ==
    IF n = 0 THEN {<< >>}
    ELSE {Append(s, b) : s \in SeqsOfLen(n - 1), b \in Byte}

Bufs == UNION {SeqsOfLen(n) : n \in 0..MaxLen}

(* ------------------------ C library primitives ------------------------- *)
\* memcpy(&dst[pos], src, Len(src)) with pos a 0-based offset inside dst
memcpy(dst, pos, src) ==
    [i \in 1..Len(dst) |->
        IF i > pos /\ i <= pos + Len(src) THEN src[i - pos] ELSE dst[i]]

\* realloc(old, n) that succeeds with n >= Len(old): the old bytes are
\* kept, the new ones are indeterminate (g supplies them)
realloc(old, n, g) ==
    [i \in 1..n |-> IF i <= Len(old) THEN old[i] ELSE g[((i - 1) % Len(g)) + 1]]

(* --------------------------- the environment --------------------------- *)
\* One answer of the real target to a request of len bytes: it takes acc
\* bytes, and err is the errno it leaves. The target takes all of them, one
\* less (a short write), or none with an error: would-block, or a hard one.
Responses(len) ==
    {[acc |-> k, err |-> "none"] : k \in {len, len - 1} \cap (0..len)}
        \cup {[acc |-> 0, err |-> "EAGAIN"], [acc |-> 0, err |-> "EIO"]}

\* The answers to the attempts of one call: up to MaxRetry would-block
\* answers, then one that is not.
RECURSIVE Blocks(_)
Blocks(n) == IF n = 0 THEN << >>
             ELSE <<[acc |-> 0, err |-> "EAGAIN"]>> \o Blocks(n - 1)

Scripts(len) ==
    {Blocks(n) \o <<r>> :
        n \in 0..MaxRetry, r \in {q \in Responses(len) : q.err # "EAGAIN"}}

FullScript(len) == <<[acc |-> len, err |-> "none"]>>

(* ------------------------------ the sink ------------------------------- *)
Stream(type) == type \in {"LYP_OUT_FDSTREAM", "LYP_OUT_FILEPATH", "LYP_OUT_FILE"}

\* the state right after a constructor returned a sink of the given type;
\* for a memory sink, strp is the caller's buffer (<< >> when *strp is
\* NULL) and size the capacity the caller announced
lyp_new(type, strp, size) ==
    [alive |-> TRUE, type |-> type, status |-> "LY_SUCCESS", printed |-> 0,
     hole_count |-> 0, bstate |-> "null", buffered |-> << >>,
     buf_len |-> 0, buf_size |-> 0,
     mptr |-> "ok",
     mbuf |-> IF type = "LYP_OUT_MEMORY" /\ size # 0 THEN strp ELSE << >>,
     mem_len |-> 0,
     mem_size |-> IF type = "LYP_OUT_MEMORY" /\ size # 0 /\ strp # << >>
                  THEN size ELSE 0,
     target |-> << >>, calls |-> 0, fault |-> "none",
     fd_open |-> type \in {"LYP_OUT_FD", "LYP_OUT_FDSTREAM"},
     file_open |-> type = "LYP_OUT_FILE",
     cbuf_alloc |-> type = "LYP_OUT_MEMORY" /\ size # 0 /\ strp # << >>,
     arg_alive |-> type = "LYP_OUT_CALLBACK",
     dupf_open |-> type = "LYP_OUT_FDSTREAM",
     pathf_open |-> type = "LYP_OUT_FILEPATH",
     path_alloc |-> type = "LYP_OUT_FILEPATH"]

Ret(o, r) == [o |-> o, ret |-> r]

\* LYOUT_CHECK(out, out->status): the call returns out->status at once
\* when the status is set
LYOUT_CHECK(o) == o.status # "LY_SUCCESS"

(* ------------------------------ lyp_write ------------------------------ *)
\* what the variant's write primitive returns for the target's answer r:
\* write(2) and the callback return -1 on an error, fwrite(3) returns the
\* number of items written and is never negative
written_of(type, r) ==
    IF Stream(type) THEN r.acc
    ELSE IF r.err # "none" THEN -1 ELSE r.acc

\* the part of lyp_write from the label "repeat" on: the write to the real
\* target, script holding the target's answers to the successive attempts
RECURSIVE lyp_write_repeat(_, _, _, _)
lyp_write_repeat(o, buf, script, alloc_ok) ==
    LET len == Len(buf) IN
    IF o.type = "LYP_OUT_MEMORY" THEN
        IF o.mptr = "null" THEN Ret([o EXCEPT !.fault = "null-deref"], "none")
        ELSE IF o.mem_len + len + 1 > o.mem_size /\ ~alloc_ok THEN
            Ret([o EXCEPT !.mbuf = << >>, !.mem_len = 0, !.mem_size = 0,
                          !.cbuf_alloc = FALSE], "LY_EMEM")
        ELSE
            LET grown == IF o.mem_len + len + 1 > o.mem_size
                         THEN realloc(o.mbuf, o.mem_len + len + 1, <<0>>)
                         ELSE o.mbuf
                size == IF o.mem_len + len + 1 > o.mem_size
                        THEN o.mem_len + len + 1 ELSE o.mem_size
            IN Ret([o EXCEPT
                      !.mbuf = memcpy(memcpy(grown, o.mem_len, buf),
                                      o.mem_len + len, <<0>>),
                      !.mem_size = size,
                      !.mem_len = o.mem_len + len,
                      !.cbuf_alloc = TRUE,
                      !.printed = o.printed + len], "LY_SUCCESS")
    ELSE
        LET r == Head(script)
            written == written_of(o.type, r)
            o1 == [o EXCEPT !.target = @ \o SubSeq(buf, 1, r.acc),
                            !.calls = @ + 1]
        IN IF written < 0 THEN
               IF r.err = "EAGAIN" THEN
                   lyp_write_repeat(o1, buf, Tail(script), alloc_ok)
               ELSE Ret([o1 EXCEPT !.status = "LY_ESYS"], "LY_ESYS")
           ELSE IF written # len THEN
               Ret([o1 EXCEPT !.status = "LY_ESYS"], "LY_ESYS")
           ELSE Ret([o1 EXCEPT !.printed = o.printed + written], "LY_SUCCESS")

\* lyp_write without the status check on entry
lyp_write_unchecked(o, buf, script, alloc_ok, crash) ==
    LET len == Len(buf) IN
    IF o.hole_count # 0 THEN
        IF o.buf_len + len > o.buf_size THEN
            IF o.bstate = "freed" /\ crash THEN
                Ret([o EXCEPT !.fault = "use-after-free"], "none")
            ELSE IF ~alloc_ok THEN
                Ret([o EXCEPT !.buffered = << >>, !.bstate = "null",
                              !.buf_len = 0, !.buf_size = 0], "LY_EMEM")
            ELSE
                Ret([o EXCEPT
                       !.buffered = memcpy(realloc(o.buffered, o.buf_len + len, <<0>>),
                                           o.buf_len, buf),
                       !.bstate = "valid",
                       !.buf_size = o.buf_len + len,
                       !.buf_len = o.buf_len + len], "LY_SUCCESS")
        ELSE
            Ret([o EXCEPT !.buffered = memcpy(o.buffered, o.buf_len, buf),
                          !.buf_len = o.buf_len + len], "LY_SUCCESS")
    ELSE lyp_write_repeat(o, buf, script, alloc_ok)

\* lyp_write(out, buf, len); crash says how a use of the freed hole buffer
\* ends (the process dies, or the allocator carries on)
lyp_write(o, buf, script, alloc_ok, crash) ==
    LET len == Len(buf) IN
    IF LYOUT_CHECK(o) THEN Ret(o, o.status)
    ELSE IF o.hole_count # 0 THEN
        IF o.buf_len + len > o.buf_size THEN
            IF o.bstate = "freed" /\ crash THEN
                Ret([o EXCEPT !.fault = "use-after-free"], "none")
            ELSE IF ~alloc_ok THEN
                Ret([o EXCEPT !.buffered = << >>, !.bstate = "null",
                              !.buf_len = 0, !.buf_size = 0], "LY_EMEM")
            ELSE
                Ret([o EXCEPT
                       !.buffered = memcpy(realloc(o.buffered, o.buf_len + len, <<0>>),
                                           o.buf_len, buf),
                       !.bstate = "valid",
                       !.buf_size = o.buf_len + len,
                       !.buf_len = o.buf_len + len], "LY_SUCCESS")
        ELSE
            Ret([o EXCEPT !.buffered = memcpy(o.buffered, o.buf_len, buf),
                          !.buf_len = o.buf_len + len], "LY_SUCCESS")
    ELSE lyp_write_repeat(o, buf, script, alloc_ok)

(* ------------------------------ lyp_print ------------------------------ *)
\* what vdprintf/vfprintf return for len rendered bytes: the number of
\* bytes printed, or a negative value on an output error
vprintf_of(r, len) == IF r.err = "none" /\ r.acc = len THEN len ELSE -1

\* lyp_print(out, format, ...): msg is the rendered text, r the target's
\* answer, mem says which allocation fails ("ok": none, "vasprintf",
\* "realloc")
lyp_print(o, msg, r, mem) ==
    LET len == Len(msg)
        o1 == [o EXCEPT !.target = @ \o SubSeq(msg, 1, r.acc),
                        !.calls = @ + 1]
        done(oo, count) ==
            IF count < 0 THEN Ret([oo EXCEPT !.status = "LY_ESYS"], "LY_ESYS")
            ELSE Ret([oo EXCEPT !.printed = o.printed + count], "LY_SUCCESS")
    IN
    IF LYOUT_CHECK(o) THEN Ret(o, o.status)
    ELSE IF o.type = "LYP_OUT_FD" \/ Stream(o.type) THEN
        done(o1, vprintf_of(r, len))
    ELSE IF o.type = "LYP_OUT_MEMORY" THEN
        IF mem = "vasprintf" THEN done(o, -1)
        ELSE IF o.mptr = "null" THEN
            Ret([o EXCEPT !.fault = "null-deref"], "none")
        ELSE IF o.mem_len + len + 1 > o.mem_size /\ mem = "realloc" THEN
            Ret([o EXCEPT !.mptr = "null", !.mbuf = << >>, !.mem_len = 0,
                          !.mem_size = 0, !.cbuf_alloc = FALSE], "LY_EMEM")
        ELSE
            LET grow == o.mem_len + len + 1 > o.mem_size
                aux == IF grow THEN realloc(o.mbuf, o.mem_len + len + 1, <<0>>)
                       ELSE o.mbuf
            IN done([o EXCEPT
                       !.mbuf = memcpy(memcpy(aux, o.mem_len, msg),
                                       o.mem_len + len, <<0>>),
                       !.mem_size = IF grow THEN o.mem_len + len + 1 ELSE @,
                       !.mem_len = o.mem_len + len,
                       !.cbuf_alloc = TRUE], len)
    ELSE \* LYP_OUT_CALLBACK
        IF mem = "vasprintf" THEN done(o, -1)
        ELSE done(o1, IF r.err # "none" THEN -1 ELSE r.acc)

(* ----------------------------- ly_write_skip --------------------------- *)
\* size_t arithmetic, narrowed from 64 bits so that TLC's integers hold it
SizeT(x) == x % (2 ^ 16)

\* ly_write_skip that counts a reservation into printed on every variant
ly_write_skip_counted(o, count, alloc_ok, crash, g) ==
    IF LYOUT_CHECK(o) THEN [o |-> o, ret |-> o.status, pos |-> -1]
    ELSE IF o.type = "LYP_OUT_MEMORY" THEN
        IF o.mptr = "null" THEN
            [o |-> [o EXCEPT !.fault = "null-deref"], ret |-> "none", pos |-> -1]
        ELSE IF o.mem_len + count > o.mem_size /\ ~alloc_ok THEN
            [o |-> [o EXCEPT !.mbuf = << >>, !.mem_len = 0, !.mem_size = 0,
                             !.cbuf_alloc = FALSE, !.status = "LY_ESYS"],
             ret |-> "LY_EMEM", pos |-> -1]
        ELSE
            LET grow == o.mem_len + count > o.mem_size IN
            [o |-> [o EXCEPT
                      !.mbuf = IF grow THEN realloc(@, o.mem_len + count, <<g>>)
                               ELSE @,
                      !.mem_size = IF grow THEN o.mem_len + count ELSE @,
                      !.cbuf_alloc = IF grow THEN TRUE ELSE @,
                      !.mem_len = o.mem_len + count,
                      !.printed = o.printed + count],
             ret |-> "LY_SUCCESS", pos |-> o.mem_len]
    ELSE
        IF o.buf_len + count > o.buf_size /\ o.bstate = "freed" /\ crash THEN
            [o |-> [o EXCEPT !.fault = "use-after-free"], ret |-> "none", pos |-> -1]
        ELSE IF o.buf_len + count > o.buf_size /\ ~alloc_ok THEN
            [o |-> [o EXCEPT !.buffered = << >>, !.bstate = "null",
                             !.buf_len = 0, !.buf_size = 0,
                             !.status = "LY_ESYS"],
             ret |-> "LY_EMEM", pos |-> -1]
        ELSE
            LET grow == o.buf_len + count > o.buf_size IN
            [o |-> [o EXCEPT
                      !.buffered = IF grow THEN realloc(@, o.buf_len + count, <<g>>)
                                   ELSE @,
                      !.bstate = IF grow THEN "valid" ELSE @,
                      !.buf_size = IF grow THEN o.buf_len + count ELSE @,
                      !.buf_len = o.buf_len + count,
                      !.printed = o.printed + count,
                      !.hole_count = SizeT(o.hole_count + 1)],
             ret |-> "LY_SUCCESS", pos |-> o.buf_len]

\* ly_write_skip(out, count, &position); g fills the bytes the allocator
\* hands out uninitialised; pos is -1 when *position is not written
ly_write_skip(o, count, alloc_ok, crash, g) ==
    IF LYOUT_CHECK(o) THEN [o |-> o, ret |-> o.status, pos |-> -1]
    ELSE IF o.type = "LYP_OUT_MEMORY" THEN
        IF o.mptr = "null" THEN
            [o |-> [o EXCEPT !.fault = "null-deref"], ret |-> "none", pos |-> -1]
        ELSE IF o.mem_len + count > o.mem_size /\ ~alloc_ok THEN
            [o |-> [o EXCEPT !.mbuf = << >>, !.mem_len = 0, !.mem_size = 0,
                             !.cbuf_alloc = FALSE, !.status = "LY_ESYS"],
             ret |-> "LY_EMEM", pos |-> -1]
        ELSE
            LET grow == o.mem_len + count > o.mem_size IN
            [o |-> [o EXCEPT
                      !.mbuf = IF grow THEN realloc(@, o.mem_len + count, <<g>>)
                               ELSE @,
                      !.mem_size = IF grow THEN o.mem_len + count ELSE @,
                      !.cbuf_alloc = IF grow THEN TRUE ELSE @,
                      !.mem_len = o.mem_len + count,
                      !.printed = o.printed + count],
             ret |-> "LY_SUCCESS", pos |-> o.mem_len]
    ELSE
        IF o.buf_len + count > o.buf_size /\ o.bstate = "freed" /\ crash THEN
            [o |-> [o EXCEPT !.fault = "use-after-free"], ret |-> "none", pos |-> -1]
        ELSE IF o.buf_len + count > o.buf_size /\ ~alloc_ok THEN
            [o |-> [o EXCEPT !.buffered = << >>, !.bstate = "null",
                             !.buf_len = 0, !.buf_size = 0,
                             !.status = "LY_ESYS"],
             ret |-> "LY_EMEM", pos |-> -1]
        ELSE
            LET grow == o.buf_len + count > o.buf_size IN
            [o |-> [o EXCEPT
                      !.buffered = IF grow THEN realloc(@, o.buf_len + count, <<g>>)
                                   ELSE @,
                      !.bstate = IF grow THEN "valid" ELSE @,
                      !.buf_size = IF grow THEN o.buf_len + count ELSE @,
                      !.buf_len = o.buf_len + count,
                      !.hole_count = SizeT(o.hole_count + 1)],
             ret |-> "LY_SUCCESS", pos |-> o.buf_len]

(* ---------------------------- ly_write_skipped ------------------------- *)
\* ly_write_skipped that copies to the start of the memory buffer whatever
\* the position
ly_write_skipped_at_start(o, position, buf, script, crash) ==
    LET count == Len(buf) IN
    IF LYOUT_CHECK(o) THEN Ret(o, o.status)
    ELSE IF o.type = "LYP_OUT_MEMORY" THEN
        IF o.mptr = "null" THEN Ret([o EXCEPT !.fault = "null-deref"], "none")
        ELSE IF count > 0 /\ position + count > Len(o.mbuf) /\ crash THEN
            Ret([o EXCEPT !.fault = "overflow"], "none")
        ELSE Ret([o EXCEPT !.mbuf = memcpy(@, 0, buf)], "LY_SUCCESS")
    ELSE
        IF o.buf_len < position + count THEN
            Ret([o EXCEPT !.status = "LY_ESYS"], "LY_EMEM")
        ELSE
            LET o1 == [o EXCEPT !.buffered = memcpy(@, position, buf),
                                !.hole_count = SizeT(o.hole_count - 1)]
            IN IF o1.hole_count = 0 THEN
                   LET w == lyp_write(o1, SubSeq(o1.buffered, 1, o1.buf_len),
                                      script, TRUE, FALSE)
                   IN Ret([w.o EXCEPT !.buf_len = 0], w.ret)
               ELSE Ret(o1, "LY_SUCCESS")

\* ly_write_skipped that adds the hole buffer's length to printed itself,
\* on top of what lyp_write counted
ly_write_skipped_recounting(o, position, buf, script, crash) ==
    LET count == Len(buf) IN
    IF LYOUT_CHECK(o) THEN Ret(o, o.status)
    ELSE IF o.type = "LYP_OUT_MEMORY" THEN
        IF o.mptr = "null" THEN Ret([o EXCEPT !.fault = "null-deref"], "none")
        ELSE IF count > 0 /\ position + count > Len(o.mbuf) /\ crash THEN
            Ret([o EXCEPT !.fault = "overflow"], "none")
        ELSE Ret([o EXCEPT !.mbuf = memcpy(@, position, buf)], "LY_SUCCESS")
    ELSE
        IF o.buf_len < position + count THEN
            Ret([o EXCEPT !.status = "LY_ESYS"], "LY_EMEM")
        ELSE
            LET o1 == [o EXCEPT !.buffered = memcpy(@, position, buf),
                                !.hole_count = SizeT(o.hole_count - 1)]
            IN IF o1.hole_count = 0 THEN
                   LET w == lyp_write(o1, SubSeq(o1.buffered, 1, o1.buf_len),
                                      script, TRUE, FALSE)
                   IN Ret([w.o EXCEPT !.buf_len = 0,
                                      !.printed = @ + o1.buf_len], w.ret)
               ELSE Ret(o1, "LY_SUCCESS")

\* ly_write_skipped(out, position, buf, count); script answers the write of
\* the hole buffer to the target, crash says how a copy past the end of the
\* memory buffer ends (the process dies, or the copy lands and only the
\* bytes inside the buffer are seen again)
ly_write_skipped(o, position, buf, script, crash) ==
    LET count == Len(buf) IN
    IF LYOUT_CHECK(o) THEN Ret(o, o.status)
    ELSE IF o.type = "LYP_OUT_MEMORY" THEN
        IF o.mptr = "null" THEN Ret([o EXCEPT !.fault = "null-deref"], "none")
        ELSE IF count > 0 /\ position + count > Len(o.mbuf) /\ crash THEN
            Ret([o EXCEPT !.fault = "overflow"], "none")
        ELSE Ret([o EXCEPT !.mbuf = memcpy(@, position, buf)], "LY_SUCCESS")
    ELSE
        IF o.buf_len < position + count THEN
            Ret([o EXCEPT !.status = "LY_ESYS"], "LY_EMEM")
        ELSE
            LET o1 == [o EXCEPT !.buffered = memcpy(@, position, buf),
                                !.hole_count = SizeT(o.hole_count - 1)]
            IN IF o1.hole_count = 0 THEN
                   LET w == lyp_write(o1, SubSeq(o1.buffered, 1, o1.buf_len),
                                      script, TRUE, FALSE)
                   IN Ret([w.o EXCEPT !.buf_len = 0], w.ret)
               ELSE Ret(o1, "LY_SUCCESS")

(* ------------------------- reset, flush, destroy ----------------------- *)
\* lyp_out_reset that rewinds the printed counter of a memory sink but not
\* its logical length
lyp_out_reset_keeping_len(o, seek) ==
    IF o.type = "LYP_OUT_FD" \/ Stream(o.type) THEN
        IF seek = "EBADF" THEN Ret(o, "LY_ESYS") ELSE Ret(o, "LY_SUCCESS")
    ELSE IF o.type = "LYP_OUT_MEMORY" THEN
        Ret([o EXCEPT !.printed = 0], "LY_SUCCESS")
    ELSE Ret(o, "LY_SUCCESS")

\* lyp_out_reset(out); seek is how lseek/fseek to the start ends: "ok",
\* "ESPIPE" (not seekable, tolerated) or "EBADF" (any other failure)
lyp_out_reset(o, seek) ==
    IF o.type = "LYP_OUT_FD" \/ Stream(o.type) THEN
        IF seek = "EBADF" THEN Ret(o, "LY_ESYS") ELSE Ret(o, "LY_SUCCESS")
    ELSE IF o.type = "LYP_OUT_MEMORY" THEN
        Ret([o EXCEPT !.printed = 0, !.mem_len = 0], "LY_SUCCESS")
    ELSE Ret(o, "LY_SUCCESS")

\* ly_print_flush that also rewinds the printed counter
ly_print_flush_rewinding(o, crash) ==
    IF o.bstate = "freed" /\ crash THEN Ret([o EXCEPT !.fault = "double-free"], "none")
    ELSE Ret([o EXCEPT !.bstate = IF @ = "null" THEN "null" ELSE "freed",
                       !.buffered = << >>, !.printed = 0,
                       !.buf_size = 0, !.buf_len = 0], "none")

\* ly_print_flush(out): the stream is flushed / the descriptor synced, then
\* free(out->buffered) with the pointer left as it is; crash says how
\* freeing it a second time ends
ly_print_flush(o, crash) ==
    IF o.bstate = "freed" /\ crash THEN Ret([o EXCEPT !.fault = "double-free"], "none")
    ELSE Ret([o EXCEPT !.bstate = IF @ = "null" THEN "null" ELSE "freed",
                       !.buffered = << >>,
                       !.buf_size = 0, !.buf_len = 0], "none")

\* lyp_memory(out, strp, size): replace says whether strp is non-NULL, strp
\* is the buffer *strp (<< >> for NULL); the return value says what *buf
\* held ("NULL", "data") or "NULL" for a sink of another type
lyp_memory(o, replace, strp, size) ==
    IF o.type # "LYP_OUT_MEMORY" THEN Ret(o, "NULL")
    ELSE IF o.mptr = "null" THEN Ret([o EXCEPT !.fault = "null-deref"], "none")
    ELSE
        LET data == IF o.cbuf_alloc THEN "data" ELSE "NULL" IN
        IF replace THEN
            Ret([o EXCEPT !.mbuf = IF size # 0 THEN strp ELSE << >>,
                          !.cbuf_alloc = size # 0 /\ strp # << >>,
                          !.mem_len = 0,
                          !.mem_size = IF size # 0 /\ strp # << >> THEN size ELSE 0,
                          !.printed = 0], data)
        ELSE Ret(o, data)

\* lyp_free that closes the caller's stream whatever the destroy flag
lyp_free_closing_file(o, dtor, destroy) ==
    LET o1 ==
        CASE o.type = "LYP_OUT_CALLBACK" ->
                [o EXCEPT !.arg_alive = IF dtor THEN FALSE ELSE @]
          [] o.type = "LYP_OUT_FDSTREAM" ->
                [o EXCEPT !.dupf_open = FALSE,
                          !.fd_open = IF destroy THEN FALSE ELSE @]
          [] o.type = "LYP_OUT_FD" ->
                [o EXCEPT !.fd_open = IF destroy THEN FALSE ELSE @]
          [] o.type = "LYP_OUT_FILE" ->
                [o EXCEPT !.file_open = FALSE]
          [] o.type = "LYP_OUT_MEMORY" ->
                IF destroy /\ o.mptr = "null" THEN [o EXCEPT !.fault = "null-deref"]
                ELSE [o EXCEPT !.cbuf_alloc = IF destroy THEN FALSE ELSE @]
          [] o.type = "LYP_OUT_FILEPATH" ->
                [o EXCEPT !.path_alloc = FALSE,
                          !.pathf_open = IF destroy THEN FALSE ELSE @]
    IN IF o1.fault # "none" THEN Ret(o1, "none")
       ELSE Ret([o1 EXCEPT !.alive = FALSE], "none")

\* lyp_free(out, clb_arg_destructor, destroy): dtor says whether a
\* destructor is given
lyp_free(o, dtor, destroy) ==
    LET o1 ==
        CASE o.type = "LYP_OUT_CALLBACK" ->
                [o EXCEPT !.arg_alive = IF dtor THEN FALSE ELSE @]
          [] o.type = "LYP_OUT_FDSTREAM" ->
                [o EXCEPT !.dupf_open = FALSE,
                          !.fd_open = IF destroy THEN FALSE ELSE @]
          [] o.type = "LYP_OUT_FD" ->
                [o EXCEPT !.fd_open = IF destroy THEN FALSE ELSE @]
          [] o.type = "LYP_OUT_FILE" ->
                [o EXCEPT !.file_open = IF destroy THEN FALSE ELSE @]
          [] o.type = "LYP_OUT_MEMORY" ->
                IF destroy /\ o.mptr = "null" THEN [o EXCEPT !.fault = "null-deref"]
                ELSE [o EXCEPT !.cbuf_alloc = IF destroy THEN FALSE ELSE @]
          [] o.type = "LYP_OUT_FILEPATH" ->
                [o EXCEPT !.path_alloc = FALSE,
                          !.pathf_open = IF destroy THEN FALSE ELSE @]
    IN IF o1.fault # "none" THEN Ret(o1, "none")
       ELSE Ret([o1 EXCEPT !.alive = FALSE], "none")

(* ------------------------------ the state ------------------------------ *)
VARIABLES
    out,        \* the sink, its target and the resources around it
    ref,        \* SpecRT: a second memory sink, fed by direct writes only
    rt,         \* SpecRT: the open reservations with the bytes meant for
                \* them, and whether a direct write came behind one
    last,       \* the most recent call that changed the sink or its target:
                \* its name, what it returned, whether it followed a reset
    req,        \* bytes requested so far by writes and reservations
    expected,   \* the output in call order, -1 standing for an open hole
    pending,    \* the reservations not yet backfilled
    clean,      \* only writes, reservations and exact backfills so far,
                \* all of them successful, the target taking every byte
    bnd,        \* SpecBind: a sink handle as its constructor returned it,
                \* the target bound to it and what the constructor and the
                \* query/replace calls opened or allocated
    heap        \* SpecTree: the data nodes of a forest, their pointers,
                \* how often each was handed to free() and the last call

vars == <<out, ref, rt, last, req, expected, pending, clean, bnd, heap>>

Types == {"LYP_OUT_FD", "LYP_OUT_FDSTREAM", "LYP_OUT_FILE", "LYP_OUT_FILEPATH",
          "LYP_OUT_MEMORY", "LYP_OUT_CALLBACK"}

\* the buffers a caller hands to lyp_new_memory / lyp_memory: none, or
\* MaxLen bytes of whatever they held
CallerBufs == {<< >>} \cup {[i \in 1..MaxLen |-> g] : g \in Byte}

NoCall == [op |-> "new", ret |-> "none", after_reset |-> FALSE]

Init ==
    /\ \E type \in Types, strp \in CallerBufs :
          /\ type # "LYP_OUT_MEMORY" => strp = << >>
          /\ out = lyp_new(type, strp, Len(strp))
    /\ ref = << >>
    /\ rt = << >>
    /\ last = NoCall
    /\ req = 0
    /\ expected = << >>
    /\ pending = {}
    /\ clean = TRUE
    /\ bnd = << >>
    /\ heap = << >>

Live == out.alive /\ out.fault = "none"

Max(a, b) == IF a > b THEN a ELSE b

\* bytes the sink holds, has passed on or has counted
Volume(o) == Max(Len(o.target) + o.buf_len + o.mem_len, o.printed)

\* the logical length of the region position tokens point into
Extent(o) == IF o.type = "LYP_OUT_MEMORY" THEN o.mem_len ELSE o.buf_len

\* reservations whose region still lies inside the buffer
Within(o, P) == {p \in P : p.pos + p.cnt <= Extent(o)}

\* whether every answer the target gave to the call took all len bytes
AllFull(o2, script, len) ==
    \A i \in 1..o2.calls : script[i] = [acc |-> len, err |-> "none"]

Holes(n) == [i \in 1..n |-> -1]

\* what is left to observe once the call is over: the number of target
\* invocations is per call; of a sink that was freed, or of a process that
\* died, only the target and the resources remain
Settle(o) ==
    IF o.alive /\ o.fault = "none" THEN [o EXCEPT !.calls = 0]
    ELSE [lyp_new(o.type, << >>, 0) EXCEPT
             !.alive = o.alive, !.fault = o.fault, !.target = o.target,
             !.bstate = o.bstate,
             !.fd_open = o.fd_open, !.file_open = o.file_open,
             !.cbuf_alloc = o.cbuf_alloc, !.arg_alive = o.arg_alive,
             !.dupf_open = o.dupf_open, !.pathf_open = o.pathf_open,
             !.path_alloc = o.path_alloc]

\* bookkeeping shared by the actions: the call's record and the history
Note(op, w, ok, add, exp, pend) ==
    /\ out' = Settle(w.o)
    /\ last' = IF out' = out THEN last
               ELSE [op |-> op, ret |-> w.ret,
                     after_reset |-> last.op = "lyp_out_reset"]
    /\ clean' = (clean /\ ok /\ w.o.fault = "none")
    /\ req' = IF clean' THEN req + add ELSE 0
    /\ expected' = IF clean' THEN exp ELSE << >>
    /\ pending' = Within(w.o, pend)
    /\ UNCHANGED <<ref, rt, bnd, heap>>

\* whether a call adding len bytes (and nul terminators) has to grow the
\* buffer it adds them to
Grows(o, len, nul) ==
    IF o.type = "LYP_OUT_MEMORY" THEN o.mem_len + len + nul > o.mem_size
    ELSE o.hole_count # 0 /\ o.buf_len + len > o.buf_size

\* a sink whose status is set refuses every write-path call whatever its
\* arguments: one call of each stands for all
Refused(o) == o.status # "LY_SUCCESS"

\* the choices of the environment, each offered only where the call can
\* meet it
AllocChoices(grows) == IF grows THEN BOOLEAN ELSE {TRUE}
CrashChoices(ub) == IF ub THEN BOOLEAN ELSE {FALSE}
ScriptChoices(o, asks, len) ==
    IF ~asks THEN {FullScript(len)}
    ELSE IF Stream(o.type) THEN {<<r>> : r \in Responses(len)}
    ELSE Scripts(len)

WriteCall ==
    /\ Live
    /\ \E buf \in Bufs :
       \E script \in ScriptChoices(out, out.status = "LY_SUCCESS"
                                        /\ out.hole_count = 0
                                        /\ out.type # "LYP_OUT_MEMORY", Len(buf)),
          alloc_ok \in AllocChoices(out.status = "LY_SUCCESS"
                                    /\ Grows(out, Len(buf), 1)),
          crash \in CrashChoices(out.bstate = "freed") :
          /\ Volume(out) + Len(buf) <= MaxOut
          /\ Refused(out) => buf = << >>
          /\ LET w == lyp_write(out, buf, script, alloc_ok, crash) IN
             Note("lyp_write", w,
                  w.ret = "LY_SUCCESS" /\ AllFull(w.o, script, Len(buf)),
                  Len(buf), expected \o buf, pending)

PrintCall ==
    /\ Live
    /\ \E msg \in Bufs :
       \E r \in IF out.status = "LY_SUCCESS" /\ out.type # "LYP_OUT_MEMORY"
                THEN Responses(Len(msg)) ELSE {Head(FullScript(Len(msg)))},
          mem \in IF out.status # "LY_SUCCESS" THEN {"ok"}
                  ELSE IF out.type = "LYP_OUT_MEMORY"
                       THEN {"ok", "vasprintf", "realloc"}
                  ELSE IF out.type = "LYP_OUT_CALLBACK" THEN {"ok", "vasprintf"}
                  ELSE {"ok"} :
          /\ Volume(out) + Len(msg) <= MaxOut
          /\ Refused(out) => msg = << >>
          /\ LET w == lyp_print(out, msg, r, mem) IN
             Note("lyp_print", w,
                  w.ret = "LY_SUCCESS" /\ AllFull(w.o, <<r>>, Len(msg)),
                  Len(msg), expected \o msg, pending)

SkipCall ==
    /\ Live
    /\ \E count \in 1..MaxLen :
       \E alloc_ok \in AllocChoices(out.status = "LY_SUCCESS"
                                    /\ Grows(out, count, 0)),
          g \in IF out.status = "LY_SUCCESS" /\ Grows(out, count, 0)
                THEN Byte ELSE {0},
          crash \in CrashChoices(out.bstate = "freed") :
          /\ Volume(out) + count <= MaxOut
          /\ out.hole_count < MaxOut \/ out.hole_count = SizeT(0 - 1)
          /\ Refused(out) => count = 1
          /\ LET w == ly_write_skip(out, count, alloc_ok, crash, g) IN
             Note("ly_write_skip", w, w.ret = "LY_SUCCESS",
                  count, expected \o Holes(count),
                  IF w.ret = "LY_SUCCESS"
                  THEN pending \cup {[pos |-> w.pos, cnt |-> count,
                                      epos |-> Len(expected), data |-> << >>]}
                  ELSE pending)

\* how a backfill of count bytes at position stands to the reservations:
\* "exact" retires one, "partial" fills the start of one, "invalid" is a
\* position not reserved (never, or no longer) or more bytes than reserved
Validity(P, position, count) ==
    IF \E p \in P : p.pos = position /\ p.cnt = count THEN "exact"
    ELSE IF \E p \in P : p.pos = position /\ count < p.cnt THEN "partial"
    ELSE "invalid"

SkippedCall ==
    /\ Live
    /\ \E position \in 0..Extent(out), buf \in Bufs :
       \E script \in ScriptChoices(out, out.status = "LY_SUCCESS"
                                        /\ out.hole_count = 1
                                        /\ out.type # "LYP_OUT_MEMORY"
                                        /\ position + Len(buf) <= out.buf_len,
                                   out.buf_len),
          crash \in CrashChoices(out.type = "LYP_OUT_MEMORY"
                                  /\ position + Len(buf) > Len(out.mbuf)) :
          /\ out.hole_count <= MaxOut
          /\ Refused(out) => position = 0 /\ buf = << >>
          /\ LET w == ly_write_skipped(out, position, buf, script, crash)
                 valid == Validity(pending, position, Len(buf))
                 hit == {p \in pending : p.pos = position}
                 p == CHOOSE q \in hit : TRUE
             IN Note("ly_write_skipped", w,
                     valid = "exact" /\ w.ret = "LY_SUCCESS"
                         /\ AllFull(w.o, script, out.buf_len),
                     0,
                     IF valid = "exact" THEN memcpy(expected, p.epos, buf)
                     ELSE expected,
                     IF valid = "exact" /\ w.ret = "LY_SUCCESS" THEN pending \ hit
                     ELSE pending)

ResetCall ==
    /\ Live
    /\ \E seek \in IF out.type = "LYP_OUT_FD" \/ Stream(out.type)
                   THEN {"ok", "ESPIPE", "EBADF"} ELSE {"ok"} :
          Note("lyp_out_reset", lyp_out_reset(out, seek),
               FALSE, 0, expected, pending)

FlushCall ==
    /\ Live
    /\ \E crash \in CrashChoices(out.bstate = "freed") :
          Note("ly_print_flush", ly_print_flush(out, crash),
               FALSE, 0, expected, pending)

MemoryCall ==
    /\ Live
    /\ \E replace \in BOOLEAN, strp \in CallerBufs :
          /\ ~replace => strp = << >>
          /\ Note("lyp_memory", lyp_memory(out, replace, strp, Len(strp)),
                  ~replace, 0, expected,
                  IF replace /\ out.type = "LYP_OUT_MEMORY" THEN {} ELSE pending)

FreeCall ==
    /\ Live
    /\ \E dtor \in BOOLEAN, destroy \in BOOLEAN :
          Note("lyp_free", lyp_free(out, dtor, destroy),
               TRUE, 0, expected, pending)

Next ==
    \/ WriteCall
    \/ PrintCall
    \/ SkipCall
    \/ SkippedCall
    \/ ResetCall
    \/ FlushCall
    \/ MemoryCall
    \/ FreeCall

Spec == Init /\ [][Next]_vars

\* sanity of the model: capacities are the buffers' real sizes
TypeOK ==
    /\ out.mem_size = Len(out.mbuf)
    /\ out.buf_size = Len(out.buffered)
    /\ out.mem_len <= out.mem_size
    /\ out.buf_len <= out.buf_size

(* ----------------- C1: the ordering law (as the spec states it) -------- *)
\* what the real target holds: the memory buffer up to its logical length,
\* or the bytes the target received
Delivered(o) ==
    IF o.type = "LYP_OUT_MEMORY" THEN SubSeq(o.mbuf, 1, o.mem_len) ELSE o.target

\* C1: after any interleaving of successful raw writes, formatted writes,
\* reservations and exact backfills, once no reservation is open the target
\* holds the bytes of all the calls in call order, each hole replaced by
\* its backfill.
C1_OrderingLaw ==
    (Live /\ clean /\ pending = {}) => Delivered(out) = expected

(* ----------------- C2: nothing reaches the target behind a hole -------- *)
\* the hole buffer of o2 is that of o with bytes appended
Appended(o, o2, bytes) ==
    /\ o2.buf_len = o.buf_len + Len(bytes)
    /\ SubSeq(o2.buffered, 1, o2.buf_len) = SubSeq(o.buffered, 1, o.buf_len) \o bytes

\* C2: on a non-memory sink with a hole outstanding, a raw write and a
\* formatted write leave the target alone (no byte, no invocation) and
\* append their bytes to the hole buffer.
C2_NoByteWhileHole ==
    (Live /\ out.type # "LYP_OUT_MEMORY" /\ out.hole_count > 0
          /\ out.status = "LY_SUCCESS" /\ out.bstate # "freed") =>
        \A buf \in Bufs :
            LET w == lyp_write(out, buf, FullScript(Len(buf)), TRUE, FALSE)
                p == lyp_print(out, buf, Head(FullScript(Len(buf))), "ok")
            IN /\ w.o.target = out.target /\ w.o.calls = out.calls
               /\ Appended(out, w.o, buf)
               /\ p.o.target = out.target /\ p.o.calls = out.calls
               /\ Appended(out, p.o, buf)

ShortAnswer(len) == [acc |-> len - 1, err |-> "none"]

\* the call reported failure, set the status, left printed alone, and the
\* next write on the sink fails without invoking the target
FatalAt(o, w) ==
    /\ w.ret # "LY_SUCCESS"
    /\ w.o.status # "LY_SUCCESS"
    /\ w.o.printed = o.printed
    /\ \A buf \in Bufs :
          LET n == lyp_write(w.o, buf, FullScript(Len(buf)), TRUE, FALSE)
          IN n.ret # "LY_SUCCESS" /\ n.o.calls = w.o.calls

\* C4: whenever the target takes fewer bytes than a raw or a formatted
\* write asked for, the call fails, the status is set, printed does not
\* advance, and every later write fails without invoking the target.
C4_ShortWriteFatal ==
    (Live /\ out.type # "LYP_OUT_MEMORY" /\ out.status = "LY_SUCCESS") =>
        \A buf \in Bufs \ {<< >>} :
            /\ out.hole_count = 0 =>
                  FatalAt(out, lyp_write(out, buf, <<ShortAnswer(Len(buf))>>,
                                         TRUE, FALSE))
            /\ FatalAt(out, lyp_print(out, buf, ShortAnswer(Len(buf)), "ok"))

(* ----------------- C5: the sticky status ------------------------------- *)
\* every way of calling each operation on sink o
WriteRuns(o) ==
    UNION {{lyp_write(o, buf, script, a, c) :
               script \in ScriptChoices(o, TRUE, Len(buf)),
               a \in BOOLEAN, c \in BOOLEAN} : buf \in Bufs}
PrintRuns(o) ==
    UNION {{lyp_print(o, msg, r, mem) :
               r \in Responses(Len(msg)),
               mem \in {"ok", "vasprintf", "realloc"}} : msg \in Bufs}
SkipRuns(o) ==
    {ly_write_skip(o, count, a, c, g) :
        count \in 1..MaxLen, a \in BOOLEAN, c \in BOOLEAN, g \in Byte}
SkippedRuns(o) ==
    {ly_write_skipped(o, position, buf, FullScript(o.buf_len), c) :
        position \in 0..MaxOut, buf \in Bufs, c \in BOOLEAN}
ResetRuns(o) == {lyp_out_reset(o, seek) : seek \in {"ok", "ESPIPE", "EBADF"}}
FlushRuns(o) == {ly_print_flush(o, c) : c \in BOOLEAN}
MemoryRuns(o) ==
    {lyp_memory(o, replace, strp, Len(strp)) :
        replace \in BOOLEAN, strp \in CallerBufs}

\* the call failed at once with the status and changed nothing
Inert(o, w) == w.o = o /\ w.ret = o.status

\* C5 as stated: once the status is set, every operation but destruction
\* fails at once and changes nothing of the sink or of its target.
C5_StickyEveryOperation ==
    (Live /\ out.status # "LY_SUCCESS") =>
        /\ \A w \in WriteRuns(out) \cup PrintRuns(out) \cup SkippedRuns(out) :
              Inert(out, w)
        /\ \A w \in SkipRuns(out) : Inert(out, w)
        /\ \A w \in ResetRuns(out) : w.o = out /\ w.ret # "LY_SUCCESS"
        /\ \A w \in FlushRuns(out) \cup MemoryRuns(out) : w.o = out

\* C5 as amended: once the status is set, the four write-path operations
\* (raw write, formatted write, reserve, backfill) fail at once with the
\* status and change nothing of the sink or of its target, and no
\* operation clears the status.
C5_StickyWritePath ==
    (Live /\ out.status # "LY_SUCCESS") =>
        /\ \A w \in WriteRuns(out) \cup PrintRuns(out) \cup SkippedRuns(out) :
              Inert(out, w)
        /\ \A w \in SkipRuns(out) : Inert(out, w) /\ w.pos = -1
        /\ \A w \in ResetRuns(out) \cup FlushRuns(out) \cup MemoryRuns(out) :
              w.o.status = out.status

\* a failed write-path call has left the status set on a sink that holds
\* or has delivered bytes
C5_Witness ==
    /\ Live /\ out.status # "LY_SUCCESS"
    /\ last.op \in {"lyp_write", "lyp_print", "ly_write_skip", "ly_write_skipped"}
    /\ last.ret # "LY_SUCCESS"
    /\ Volume(out) > 0

(* ----------------- C6: invalid backfills ------------------------------- *)
\* C6: a backfill that matches no open reservation (a position not
\* reserved or already filled, or more bytes than were reserved there)
\* fails and leaves the hole buffer, the memory buffer, the hole count and
\* the target as they were.
C6_InvalidBackfillRejected ==
    (Live /\ out.status = "LY_SUCCESS" /\ out.bstate # "freed") =>
        \A position \in 0..MaxOut, buf \in Bufs \ {<< >>}, crash \in BOOLEAN :
            Validity(pending, position, Len(buf)) = "invalid" =>
                LET w == ly_write_skipped(out, position, buf,
                                          FullScript(out.buf_len), crash)
                IN /\ w.ret # "LY_SUCCESS"
                   /\ w.o.hole_count = out.hole_count
                   /\ w.o.buffered = out.buffered /\ w.o.buf_len = out.buf_len
                   /\ w.o.mbuf = out.mbuf
                   /\ w.o.target = out.target
                   /\ w.o.fault = "none"

(* ----------------- C7: the memory round trip --------------------------- *)
\* Two memory sinks are built alike and fed the same bytes in the same
\* order: ref by direct writes only, out with some of the pieces reserved
\* first and backfilled later.
RTStart == [holes |-> {}, between |-> FALSE, filled |-> FALSE, before |-> FALSE]

InitRT ==
    /\ \E strp \in CallerBufs :
          /\ out = lyp_new("LYP_OUT_MEMORY", strp, Len(strp))
          /\ ref = out
    /\ rt = RTStart
    /\ last = NoCall
    /\ req = 0
    /\ expected = << >>
    /\ pending = {}
    /\ clean = TRUE
    /\ bnd = << >>
    /\ heap = << >>

Direct(o, buf, formatted) ==
    IF formatted THEN lyp_print(o, buf, Head(FullScript(Len(buf))), "ok").o
    ELSE lyp_write(o, buf, FullScript(Len(buf)), TRUE, FALSE).o

\* the same direct write (raw or formatted) on both sinks
RTWrite ==
    \E buf \in Bufs \ {<< >>}, formatted \in BOOLEAN :
        /\ Volume(ref) + Len(buf) <= MaxTrip
        /\ out' = Direct(out, buf, formatted)
        /\ ref' = Direct(ref, buf, formatted)
        /\ rt' = [rt EXCEPT !.between = @ \/ rt.holes # {}]
        /\ UNCHANGED <<last, req, expected, pending, clean, bnd, heap>>

\* out reserves room for data, ref writes data
RTReserve ==
    \E data \in Bufs \ {<< >>}, g \in Byte :
        /\ Volume(ref) + Len(data) <= MaxTrip
        /\ LET w == ly_write_skip(out, Len(data), TRUE, FALSE, g) IN
              /\ out' = w.o
              /\ rt' = [rt EXCEPT !.holes = @ \cup {[pos |-> w.pos, data |-> data]},
                                   !.before = @ \/ out.mem_len > 0]
        /\ ref' = Direct(ref, data, FALSE)
        /\ UNCHANGED <<last, req, expected, pending, clean, bnd, heap>>

\* out backfills one of its reservations with the bytes meant for it
RTBackfill ==
    \E h \in rt.holes :
        /\ out' = ly_write_skipped(out, h.pos, h.data, FullScript(0), FALSE).o
        /\ rt' = [rt EXCEPT !.holes = @ \ {h}, !.filled = TRUE]
        /\ UNCHANGED <<ref, last, req, expected, pending, clean, bnd, heap>>

\* both sinks are rewound, their capacity kept
RTReset ==
    /\ rt.holes = {}
    /\ out.mem_len > 0
    /\ out' = lyp_out_reset(out, "ok").o
    /\ ref' = lyp_out_reset(ref, "ok").o
    /\ rt' = RTStart
    /\ UNCHANGED <<last, req, expected, pending, clean, bnd, heap>>

NextRT ==
    \/ RTWrite
    \/ RTReserve
    \/ RTBackfill
    \/ RTReset

SpecRT == InitRT /\ [][NextRT]_vars

\* C7: on a memory sink, reserving N bytes and backfilling them later gives
\* what writing them directly gives: the same logical length and printed
\* value at every point, and the same content (the bytes up to the logical
\* length) once every reservation is backfilled, also with direct writes
\* between a reservation and its backfill.
C7_RoundTrip ==
    /\ out.mem_len = ref.mem_len
    /\ out.printed = ref.printed
    /\ out.status = ref.status
    /\ rt.holes = {} => Delivered(out) = Delivered(ref)

\* a reservation between two direct writes was backfilled after the second
C7_Witness ==
    /\ rt.holes = {} /\ rt.filled /\ rt.between /\ rt.before
    /\ out.mem_len >= 3 /\ out.printed = out.mem_len
    /\ out.mbuf # ref.mbuf

(* ----------------- C8: reset, then write, on a memory sink ------------- *)
\* C8: on a memory sink holding content, lyp_out_reset sets the logical
\* length and printed to zero and keeps the buffer and its capacity; a
\* write of M bytes that follows and succeeds leaves exactly those M bytes
\* as the content, logical length M and printed = M.
C8_ResetThenWrite ==
    (Live /\ out.type = "LYP_OUT_MEMORY" /\ out.mptr = "ok" /\ out.mem_len > 0) =>
        LET r == lyp_out_reset(out, "ok") IN
        /\ r.ret = "LY_SUCCESS"
        /\ r.o.mem_len = 0 /\ r.o.printed = 0
        /\ r.o.mem_size = out.mem_size /\ r.o.mbuf = out.mbuf
        /\ r.o.mptr = out.mptr /\ r.o.cbuf_alloc = out.cbuf_alloc
        /\ \A buf \in Bufs, alloc_ok \in BOOLEAN :
              LET w == lyp_write(r.o, buf, FullScript(Len(buf)), alloc_ok, FALSE)
              IN w.ret = "LY_SUCCESS" =>
                    /\ Delivered(w.o) = buf
                    /\ w.o.mem_len = Len(buf)
                    /\ w.o.printed = Len(buf)

\* a write has followed a reset that rewound a memory sink
C8_Witness ==
    /\ Live /\ out.type = "LYP_OUT_MEMORY"
    /\ last.op = "lyp_write" /\ last.after_reset /\ last.ret = "LY_SUCCESS"
    /\ out.mem_len > 0 /\ out.printed = out.mem_len
    /\ out.mem_size > out.mem_len + 1

(* ----------------- C9: destruction that keeps the target --------------- *)
\* the caller's resources are what they were
CallerKeeps(o, f) ==
    /\ f.fd_open = o.fd_open
    /\ f.file_open = o.file_open
    /\ f.cbuf_alloc = o.cbuf_alloc
    /\ f.arg_alive = o.arg_alive

\* C9 as stated: lyp_free with destroy = 0 leaves the caller's descriptor,
\* stream, memory buffer and callback argument alone, on every variant and
\* whatever the other arguments.
C9_KeepTargetNeverReleases ==
    Live => \A dtor \in BOOLEAN : CallerKeeps(out, lyp_free(out, dtor, FALSE).o)

\* C9 as amended: lyp_free with destroy = 0 and no argument destructor
\* leaves the caller's descriptor, stream, memory buffer and callback
\* argument alone on every variant, and releases the sink, the duplicated
\* stream and the remembered path; a destructor, when given, is applied to
\* the callback argument whatever the destroy flag.
C9_KeepTargetNoDestructor ==
    Live =>
        /\ LET f == lyp_free(out, FALSE, FALSE).o IN
              /\ CallerKeeps(out, f)
              /\ ~f.alive /\ ~f.dupf_open /\ ~f.path_alloc
        /\ \A destroy \in BOOLEAN :
              out.type = "LYP_OUT_CALLBACK" =>
                  ~lyp_free(out, TRUE, destroy).o.arg_alive

\* a sink is gone and what the caller gave it is still there
C9_Witness ==
    /\ ~out.alive /\ out.fault = "none" /\ last.op = "lyp_free"
    /\ \/ out.type = "LYP_OUT_MEMORY" /\ out.cbuf_alloc
       \/ out.type = "LYP_OUT_FILE" /\ out.file_open
       \/ out.type = "LYP_OUT_FDSTREAM" /\ out.fd_open /\ ~out.dupf_open
    /\ out.type = "LYP_OUT_FDSTREAM" => Len(out.target) > 0

(* ----------------- C10: would-block is retried ------------------------- *)
\* C10: when the target answers would-block and then takes every byte, a
\* raw write and a formatted write succeed, leave the status alone, deliver
\* the bytes once and advance printed by the requested length, on every
\* variant with a target that can answer so.
C10_WouldBlockRetried ==
    (Live /\ out.type # "LYP_OUT_MEMORY" /\ out.status = "LY_SUCCESS"
          /\ out.hole_count = 0) =>
        \A buf \in Bufs \ {<< >>} :
            LET script == Blocks(1) \o FullScript(Len(buf))
                w == lyp_write(out, buf, script, TRUE, FALSE)
                p == lyp_print(out, buf, Head(script), "ok")
            IN /\ w.ret = "LY_SUCCESS" /\ w.o.status = "LY_SUCCESS"
               /\ w.o.target = out.target \o buf
               /\ w.o.printed = out.printed + Len(buf)
               /\ p.ret = "LY_SUCCESS" /\ p.o.status = "LY_SUCCESS"

(* ============ constructors, query/replace, the null handle ============= *)
\* what a caller can name: its descriptors, streams, paths, callbacks,
\* callback arguments and string variables; what the library opens itself:
\* duplicated descriptors and streams
Fds == {3, 4}
Files == {"fA", "fB"}
Paths == {"pA", "pB"}
Funcs == {"cbA", "cbB"}
Args == {"aA", "aB"}
Strps == {"sA", "sB"}
OwnFds == {10, 11}
OwnStreams == {"g0", "g1"}

\* dup() and fdopen()/fopen() hand out what is not in use
dup(fds) == CHOOSE n \in OwnFds : n \notin fds /\ \A m \in OwnFds \ fds : n <= m
fopen(streams) == CHOOSE g \in OwnStreams : g \notin streams

\* no sink: what the caller holds before a constructor ran; cells are the
\* caller's string variables (*strp), each NULL or pointing to a buffer;
\* sfd is the descriptor under the stream f when the library duplicated it
NoSink(cells) ==
    [handle |-> "NULL", type |-> "LYP_OUT_ERROR",
     fd |-> -1, f |-> "NULL", sfd |-> -1,
     filepath |-> "NULL", func |-> "NULL", arg |-> "NULL",
     strp |-> "NULL", size |-> 0, cells |-> cells,
     fds |-> {}, streams |-> {}, out_alloc |-> FALSE, path_alloc |-> FALSE,
     fault |-> "none", op |-> "none", given |-> "none", ret |-> "none"]

Did(b, op, given, ret) == [b EXCEPT !.op = op, !.given = given, !.ret = ret]

\* calloc of the sink succeeded: the zeroed struct
calloc(b, type) == [b EXCEPT !.handle = "sink", !.type = type, !.out_alloc = TRUE]

lyp_new_clb(b, writeclb, arg, calloc_ok) ==
    IF ~calloc_ok THEN Did(b, "lyp_new_clb", writeclb, "NULL")
    ELSE Did([calloc(b, "LYP_OUT_CALLBACK") EXCEPT !.func = writeclb, !.arg = arg],
             "lyp_new_clb", writeclb, "sink")

\* have_vdprintf is the build (HAVE_VDPRINTF); crash says how fclose() of an
\* int ends: the process dies, or the call comes back having closed nothing
lyp_new_fd(b, fd, have_vdprintf, calloc_ok, dup_ok, fdopen_ok, crash) ==
    IF ~calloc_ok THEN Did(b, "lyp_new_fd", fd, "NULL")
    ELSE IF have_vdprintf THEN
        Did([calloc(b, "LYP_OUT_FD") EXCEPT !.fd = fd], "lyp_new_fd", fd, "sink")
    ELSE IF ~dup_ok THEN Did(b, "lyp_new_fd", fd, "NULL")
    ELSE IF ~fdopen_ok THEN
        Did([b EXCEPT !.fds = @ \cup {dup(b.fds)},
                      !.fault = IF crash THEN "bad-fclose" ELSE @],
            "lyp_new_fd", fd, IF crash THEN "none" ELSE "NULL")
    ELSE
        Did([calloc(b, "LYP_OUT_FDSTREAM") EXCEPT
                !.fd = fd, !.fds = @ \cup {dup(b.fds)}, !.sfd = dup(b.fds),
                !.f = fopen(b.streams), !.streams = @ \cup {fopen(b.streams)}],
            "lyp_new_fd", fd, "sink")

lyp_new_file(b, f, calloc_ok) ==
    IF ~calloc_ok THEN Did(b, "lyp_new_file", f, "NULL")
    ELSE Did([calloc(b, "LYP_OUT_FILE") EXCEPT !.f = f], "lyp_new_file", f, "sink")

lyp_new_memory(b, strp, size, calloc_ok) ==
    IF ~calloc_ok THEN Did(b, "lyp_new_memory", strp, "NULL")
    ELSE Did([calloc(b, "LYP_OUT_MEMORY") EXCEPT
                 !.strp = strp,
                 !.cells[strp] = IF size = 0 THEN "NULL" ELSE @,
                 !.size = IF size # 0 /\ b.cells[strp] # "NULL" THEN size ELSE 0],
             "lyp_new_memory", strp, "sink")

lyp_new_filepath(b, filepath, calloc_ok, fopen_ok) ==
    IF ~calloc_ok THEN Did(b, "lyp_new_filepath", filepath, "NULL")
    ELSE IF ~fopen_ok THEN
        Did([b EXCEPT !.out_alloc = TRUE], "lyp_new_filepath", filepath, "NULL")
    ELSE Did([calloc(b, "LYP_OUT_FILEPATH") EXCEPT
                 !.f = fopen(b.streams), !.streams = @ \cup {fopen(b.streams)},
                 !.filepath = filepath, !.path_alloc = TRUE],
             "lyp_new_filepath", filepath, "sink")

\* LY_CHECK_ARG_RET(NULL, out, out->type == ..., retval): the call returns
\* retval when the handle is NULL or the sink is of another type
LY_CHECK_ARG_RET(b, types) == b.handle = "NULL" \/ b.type \notin types

lyp_out_type(b) ==
    IF b.handle = "NULL" THEN Did(b, "lyp_out_type", "none", "LYP_OUT_ERROR")
    ELSE Did(b, "lyp_out_type", "none", b.type)

lyp_clb(b, writeclb) ==
    IF LY_CHECK_ARG_RET(b, {"LYP_OUT_CALLBACK"}) THEN Did(b, "lyp_clb", writeclb, "NULL")
    ELSE Did([b EXCEPT !.func = IF writeclb # "NULL" THEN writeclb ELSE @],
             "lyp_clb", writeclb, b.func)

lyp_clb_arg(b, arg) ==
    IF LY_CHECK_ARG_RET(b, {"LYP_OUT_CALLBACK"}) THEN Did(b, "lyp_clb_arg", arg, "NULL")
    ELSE Did([b EXCEPT !.arg = IF arg # "NULL" THEN arg ELSE @],
             "lyp_clb_arg", arg, b.arg)

lyp_fd(b, fd, dup_ok, fdopen_ok) ==
    IF LY_CHECK_ARG_RET(b, {"LYP_OUT_FD", "LYP_OUT_FDSTREAM"}) THEN
        Did(b, "lyp_fd", fd, -1)
    ELSE IF fd = -1 THEN Did(b, "lyp_fd", fd, b.fd)
    ELSE IF b.type = "LYP_OUT_FDSTREAM" THEN
        IF ~dup_ok THEN Did(b, "lyp_fd", fd, -1)
        ELSE IF ~fdopen_ok THEN Did(b, "lyp_fd", fd, -1)
        ELSE LET streamfd == dup(b.fds)
                 stream == fopen(b.streams)
             IN Did([b EXCEPT !.streams = (@ \ {b.f}) \cup {stream},
                              !.fds = (@ \ {b.sfd}) \cup {streamfd},
                              !.f = stream, !.sfd = streamfd, !.fd = streamfd],
                    "lyp_fd", fd, b.fd)
    ELSE Did([b EXCEPT !.fd = fd], "lyp_fd", fd, b.fd)

lyp_file(b, f) ==
    IF LY_CHECK_ARG_RET(b, {"LYP_OUT_FILE"}) THEN Did(b, "lyp_file", f, "NULL")
    ELSE Did([b EXCEPT !.f = IF f # "NULL" THEN f ELSE @], "lyp_file", f, b.f)

\* the binding side of lyp_memory: which string variable the sink writes
\* through, and what that variable points to
lyp_memory_binding(b, strp, size) ==
    IF LY_CHECK_ARG_RET(b, {"LYP_OUT_MEMORY"}) THEN
        Did(b, "lyp_memory", strp, "NULL")
    ELSE IF strp = "NULL" THEN Did(b, "lyp_memory", strp, b.cells[b.strp])
    ELSE Did([b EXCEPT !.strp = strp,
                       !.cells[strp] = IF size = 0 THEN "NULL" ELSE @,
                       !.size = IF size # 0 /\ b.cells[strp] # "NULL" THEN size ELSE 0],
             "lyp_memory", strp, b.cells[b.strp])

lyp_filepath(b, filepath, fopen_ok) ==
    IF LY_CHECK_ARG_RET(b, {"LYP_OUT_FILEPATH"}) THEN
        Did(b, "lyp_filepath", filepath, IF filepath # "NULL" THEN "NULL" ELSE "(void *)-1")
    ELSE IF filepath = "NULL" THEN Did(b, "lyp_filepath", filepath, b.filepath)
    ELSE IF ~fopen_ok THEN Did(b, "lyp_filepath", filepath, "(void *)-1")
    ELSE LET stream == fopen(b.streams) IN
         Did([b EXCEPT !.streams = (@ \ {b.f}) \cup {stream}, !.f = stream,
                       !.filepath = filepath],
             "lyp_filepath", filepath, "NULL")

\* the per-sink operations that take the handle and nothing that names a
\* target, called with a NULL handle: what the call returns, or "deref"
\* when it reads through the handle before any test of it
on_null_handle(op) ==
    CASE op = "lyp_out_reset" -> "LY_EINVAL"
      [] op = "lyp_free" -> "void"
      [] op = "ly_print_flush" -> "deref"
      [] op \in {"lyp_print", "lyp_write", "ly_write_skip", "ly_write_skipped"} ->
            "deref"

HandleOps == {"lyp_out_reset", "lyp_free", "ly_print_flush",
              "lyp_print", "lyp_write", "ly_write_skip", "ly_write_skipped"}

(* ------------------------------ SpecBind ------------------------------- *)
CellStates == [Strps -> {"NULL", "buf"}]

InitBind ==
    /\ \E cells \in CellStates, calloc_ok \in BOOLEAN :
          LET b == NoSink(cells) IN
          \/ \E writeclb \in Funcs \cup {"NULL"}, arg \in Args \cup {"NULL"} :
                bnd = lyp_new_clb(b, writeclb, arg, calloc_ok)
          \/ \E fd \in Fds, have_vdprintf \in BOOLEAN, dup_ok \in BOOLEAN,
                fdopen_ok \in BOOLEAN, crash \in BOOLEAN :
                bnd = lyp_new_fd(b, fd, have_vdprintf, calloc_ok, dup_ok,
                                 fdopen_ok, crash)
          \/ \E f \in Files : bnd = lyp_new_file(b, f, calloc_ok)
          \/ \E strp \in Strps, size \in {0, MaxLen} :
                bnd = lyp_new_memory(b, strp, size, calloc_ok)
          \/ \E filepath \in Paths, fopen_ok \in BOOLEAN :
                bnd = lyp_new_filepath(b, filepath, calloc_ok, fopen_ok)
    /\ out = lyp_new("LYP_OUT_FD", << >>, 0)
    /\ ref = << >>
    /\ rt = << >>
    /\ last = NoCall
    /\ req = 0
    /\ expected = << >>
    /\ pending = {}
    /\ clean = TRUE
    /\ heap = << >>

Running == bnd.fault = "none"

Rest == <<out, ref, rt, last, req, expected, pending, clean, heap>>

TypeQuery ==
    /\ Running
    /\ bnd' = lyp_out_type(bnd)
    /\ UNCHANGED Rest

ClbCall ==
    /\ Running
    /\ \E writeclb \in Funcs \cup {"NULL"} : bnd' = lyp_clb(bnd, writeclb)
    /\ UNCHANGED Rest

ClbArgCall ==
    /\ Running
    /\ \E arg \in Args \cup {"NULL"} : bnd' = lyp_clb_arg(bnd, arg)
    /\ UNCHANGED Rest

FdCall ==
    /\ Running
    /\ \E fd \in Fds \cup {-1}, dup_ok \in BOOLEAN, fdopen_ok \in BOOLEAN :
          bnd' = lyp_fd(bnd, fd, dup_ok, fdopen_ok)
    /\ UNCHANGED Rest

FileCall ==
    /\ Running
    /\ \E f \in Files \cup {"NULL"} : bnd' = lyp_file(bnd, f)
    /\ UNCHANGED Rest

MemoryBindingCall ==
    /\ Running
    /\ \E strp \in Strps \cup {"NULL"}, size \in {0, MaxLen} :
          bnd' = lyp_memory_binding(bnd, strp, size)
    /\ UNCHANGED Rest

FilepathCall ==
    /\ Running
    /\ \E filepath \in Paths \cup {"NULL"}, fopen_ok \in BOOLEAN :
          bnd' = lyp_filepath(bnd, filepath, fopen_ok)
    /\ UNCHANGED Rest

\* a call of one of the other operations with the NULL a failed
\* constructor returned
NullCall ==
    /\ Running
    /\ bnd.handle = "NULL"
    /\ \E op \in HandleOps :
          LET r == on_null_handle(op) IN
          bnd' = Did([bnd EXCEPT !.fault = IF r = "deref" THEN "null-deref" ELSE @],
                     op, "none", r)
    /\ UNCHANGED Rest

NextBind ==
    \/ TypeQuery
    \/ ClbCall
    \/ ClbArgCall
    \/ FdCall
    \/ FileCall
    \/ MemoryBindingCall
    \/ FilepathCall
    \/ NullCall

SpecBind == InitBind /\ [][NextBind]_vars

(* ----------------- C11: query/replace round trip ----------------------- *)
Given(x, old, none) == IF x # none THEN x ELSE old

\* C11: on a sink of the matching variant each query/replace operation
\* returns the target bound before the call, and a query right after it
\* returns the replacement when one was given, the old target when none.
C11_QueryReplaceRoundTrip ==
    (Running /\ bnd.handle = "sink") =>
        /\ bnd.type = "LYP_OUT_CALLBACK" =>
              /\ \A writeclb \in Funcs \cup {"NULL"} :
                    LET r == lyp_clb(bnd, writeclb) IN
                    /\ r.ret = bnd.func
                    /\ lyp_clb(r, "NULL").ret = Given(writeclb, bnd.func, "NULL")
              /\ \A arg \in Args \cup {"NULL"} :
                    LET r == lyp_clb_arg(bnd, arg) IN
                    /\ r.ret = bnd.arg
                    /\ lyp_clb_arg(r, "NULL").ret = Given(arg, bnd.arg, "NULL")
        /\ bnd.type = "LYP_OUT_FILE" =>
              \A f \in Files \cup {"NULL"} :
                    LET r == lyp_file(bnd, f) IN
                    /\ r.ret = bnd.f
                    /\ lyp_file(r, "NULL").ret = Given(f, bnd.f, "NULL")
        /\ bnd.type = "LYP_OUT_MEMORY" =>
              \A strp \in Strps \cup {"NULL"}, size \in {0, MaxLen} :
                    LET r == lyp_memory_binding(bnd, strp, size) IN
                    /\ r.ret = bnd.cells[bnd.strp]
                    /\ lyp_memory_binding(r, "NULL", 0).ret =
                          IF strp = "NULL" THEN bnd.cells[bnd.strp]
                          ELSE IF size = 0 THEN "NULL" ELSE bnd.cells[strp]
        /\ bnd.type \in {"LYP_OUT_FD", "LYP_OUT_FDSTREAM"} =>
              \A fd \in Fds \cup {-1} :
                    LET r == lyp_fd(bnd, fd, TRUE, TRUE) IN
                    /\ r.ret = bnd.fd
                    /\ lyp_fd(r, -1, TRUE, TRUE).ret = Given(fd, bnd.fd, -1)
        /\ bnd.type = "LYP_OUT_FILEPATH" =>
              \A filepath \in Paths \cup {"NULL"} :
                    LET r == lyp_filepath(bnd, filepath, TRUE) IN
                    /\ r.ret = bnd.filepath
                    /\ lyp_filepath(r, "NULL", TRUE).ret =
                          Given(filepath, bnd.filepath, "NULL")

(* ----------------- C12: the wrong variant ------------------------------ *)
\* sinks of each variant as their constructors return them
FreshSinks ==
    LET b == NoSink([s \in Strps |-> "buf"]) IN
    {lyp_new_clb(b, w, a, TRUE) : w \in Funcs \cup {"NULL"}, a \in Args \cup {"NULL"}}
        \cup {lyp_new_fd(b, fd, v, TRUE, TRUE, TRUE, FALSE) : fd \in Fds, v \in BOOLEAN}
        \cup {lyp_new_file(b, f, TRUE) : f \in Files}
        \cup {lyp_new_memory(b, strp, size, TRUE) : strp \in Strps, size \in {0, MaxLen}}
        \cup {lyp_new_filepath(b, filepath, TRUE, TRUE) : filepath \in Paths}

\* every call of the named query/replace operation on sink b, its
\* environment obliging
QueryRuns(op, b) ==
    CASE op = "lyp_clb" -> {lyp_clb(b, w) : w \in Funcs \cup {"NULL"}}
      [] op = "lyp_clb_arg" -> {lyp_clb_arg(b, a) : a \in Args \cup {"NULL"}}
      [] op = "lyp_fd" -> {lyp_fd(b, fd, TRUE, TRUE) : fd \in Fds \cup {-1}}
      [] op = "lyp_file" -> {lyp_file(b, f) : f \in Files \cup {"NULL"}}
      [] op = "lyp_memory" ->
            {lyp_memory_binding(b, strp, size) :
                strp \in Strps \cup {"NULL"}, size \in {0, MaxLen}}
      [] op = "lyp_filepath" ->
            {lyp_filepath(b, filepath, TRUE) : filepath \in Paths \cup {"NULL"}}

Matching(op) ==
    CASE op \in {"lyp_clb", "lyp_clb_arg"} -> {"LYP_OUT_CALLBACK"}
      [] op = "lyp_fd" -> {"LYP_OUT_FD", "LYP_OUT_FDSTREAM"}
      [] op = "lyp_file" -> {"LYP_OUT_FILE"}
      [] op = "lyp_memory" -> {"LYP_OUT_MEMORY"}
      [] op = "lyp_filepath" -> {"LYP_OUT_FILEPATH"}

QueryOps == {"lyp_clb", "lyp_clb_arg", "lyp_fd", "lyp_file", "lyp_memory",
             "lyp_filepath"}

\* the values the operation returns on sinks of its own variant
NormalValues(op) ==
    UNION {{r.ret : r \in QueryRuns(op, m)} :
              m \in {x \in FreshSinks : x.type \in Matching(op)}}

\* C12: a query/replace operation called on a sink of another variant
\* leaves the sink as it was and returns a value that the operation never
\* returns for a successful call on a sink of its own variant.
C12_WrongVariantDistinct ==
    (Running /\ bnd.handle = "sink") =>
        \A op \in QueryOps :
            bnd.type \notin Matching(op) =>
                \A r \in QueryRuns(op, bnd) :
                    /\ r = Did(bnd, r.op, r.given, r.ret)
                    /\ r.ret \notin NormalValues(op)

(* ----------------- C13: the null handle -------------------------------- *)
\* C13: every operation called with a NULL handle returns its error value
\* without reading through the handle.
C13_NullHandleRejected ==
    (Running /\ bnd.handle = "NULL") =>
        /\ lyp_out_type(bnd).ret = "LYP_OUT_ERROR"
        /\ \A op \in QueryOps : \A r \in QueryRuns(op, bnd) :
              r = Did(bnd, r.op, r.given, r.ret) /\ r.fault = "none"
        /\ \A op \in HandleOps : on_null_handle(op) # "deref"

(* ----------------- C14: failed constructors ---------------------------- *)
\* C14: when a constructor returns no sink, nothing it allocated or opened
\* is left behind: no sink allocation, no duplicated descriptor, no stream.
C14_FailedConstructorLeaksNothing ==
    bnd.handle = "NULL" =>
        /\ ~bnd.out_alloc
        /\ bnd.fds = {}
        /\ bnd.streams = {}
        /\ bnd.fault # "bad-fclose"

(* ----------------- C15: printed only increases ------------------------- *)
\* C15 as stated: no operation leaves printed smaller than it found it.
C15_PrintedNeverDecreases ==
    Live =>
        /\ \A w \in WriteRuns(out) \cup PrintRuns(out) \cup SkippedRuns(out)
                      \cup ResetRuns(out) \cup FlushRuns(out) \cup MemoryRuns(out) :
              w.o.printed >= out.printed
        /\ \A w \in SkipRuns(out) : w.o.printed >= out.printed

\* C15 as amended: no write-path operation and no flush leaves printed
\* smaller than it found it, and a reset or a query/replace leaves it as it
\* was on every sink but a memory sink, where a reset and a replacement of
\* the buffer set it to zero.
C15_PrintedRewoundOnlyOnMemory ==
    Live =>
        /\ \A buf \in Bufs, c \in CrashChoices(out.bstate = "freed") :
              \A script \in ScriptChoices(out, out.status = "LY_SUCCESS"
                                                /\ out.hole_count = 0
                                                /\ out.type # "LYP_OUT_MEMORY",
                                           Len(buf)),
                 a \in AllocChoices(out.status = "LY_SUCCESS"
                                     /\ Grows(out, Len(buf), 1)) :
                  lyp_write(out, buf, script, a, c).o.printed >= out.printed
        /\ \A msg \in Bufs,
              mem \in IF out.status = "LY_SUCCESS"
                         /\ out.type \in {"LYP_OUT_MEMORY", "LYP_OUT_CALLBACK"}
                      THEN {"ok", "vasprintf", "realloc"} ELSE {"ok"} :
              \A r \in IF out.status = "LY_SUCCESS" /\ out.type # "LYP_OUT_MEMORY"
                       THEN Responses(Len(msg)) ELSE {Head(FullScript(Len(msg)))} :
                  lyp_print(out, msg, r, mem).o.printed >= out.printed
        /\ \A w \in SkippedRuns(out) : w.o.printed >= out.printed
        /\ \A w \in FlushRuns(out) : w.o.printed >= out.printed
        /\ \A w \in SkipRuns(out) : w.o.printed >= out.printed
        /\ \A w \in ResetRuns(out) :
              w.o.printed = IF out.type = "LYP_OUT_MEMORY" THEN 0 ELSE out.printed
        /\ \A replace \in BOOLEAN, strp \in CallerBufs :
              LET w == lyp_memory(out, replace, strp, Len(strp)) IN
              w.o.printed = IF out.type = "LYP_OUT_MEMORY" /\ replace /\ w.o.fault = "none"
                            THEN 0 ELSE out.printed

\* a reset has rewound a memory sink that had counted bytes
C15_Witness ==
    /\ Live /\ out.type = "LYP_OUT_MEMORY"
    /\ last.op = "lyp_out_reset"
    /\ out.printed = 0 /\ out.mem_size > 0

(* ------------------ the data tree: tree_data_free.c -------------------- *)
\* the largest forest, in nodes
MaxNodes == 3

\* node->schema->nodetype, by the three masks lyd_free_subtree tests
NodeKinds == {"LYD_NODE_INNER", "LYD_NODE_TERM", "LYD_NODE_ANY"}

\* node i and its ancestors under the parent map p (0 is NULL)
RECURSIVE AncOrSelf(_, _)
AncOrSelf(p, i) == IF i = 0 THEN {} ELSE {i} \cup AncOrSelf(p, p[i])

\* the forests of n nodes, the nodes numbered in document order
Shapes(n) ==
    {p \in [1..n -> 0..n] :
        \A i \in 1..n : /\ p[i] < i
                        /\ i > 1 => p[i] \in {0} \cup AncOrSelf(p, i - 1)}

Least(S) == CHOOSE x \in S : \A y \in S : x <= y
Greatest(S) == CHOOSE x \in S : \A y \in S : x >= y

\* struct lyd_node as lyd_unlink_tree and lyd_free_subtree use it: parent,
\* next (NULL in the last sibling), prev (the last sibling in the first
\* one), the first child of an inner node, and the number of attributes
\* hanging on node->attr; frees counts the calls of free() on each node
NewForest(p, kinds, attrs) ==
    [node |-> [i \in DOMAIN p |->
                 LET sibs == {j \in DOMAIN p : p[j] = p[i]}
                     later == {j \in sibs : j > i}
                     earlier == {j \in sibs : j < i}
                     kids == {j \in DOMAIN p : p[j] = i}
                 IN [parent |-> p[i],
                     next |-> IF later = {} THEN 0 ELSE Least(later),
                     prev |-> IF earlier = {} THEN Greatest(sibs)
                              ELSE Greatest(earlier),
                     child |-> IF kids = {} THEN 0 ELSE Least(kids),
                     nodetype |-> kinds[i],
                     attr |-> attrs[i]]],
     frees |-> [i \in DOMAIN p |-> 0],
     fault |-> "none", halted |-> FALSE,
     op |-> "none", given |-> 0, ret |-> "none"]

\* an access the language leaves undefined: the run ends there (crash) or
\* goes on with what the released block still holds
Undefined(h, what, crash) ==
    [h EXCEPT !.fault = IF @ = "none" THEN what ELSE @,
              !.halted = @ \/ crash]

\* a read of a field of node x
deref(h, x, crash) ==
    IF h.halted \/ h.frees[x] = 0 THEN h
    ELSE Undefined(h, "use-after-free", crash)

\* free(x)
free(h, x, crash) ==
    IF h.halted THEN h
    ELSE IF h.frees[x] = 0 THEN [h EXCEPT !.frees[x] = 1]
    ELSE LET u == Undefined(h, "double-free", crash) IN
         IF crash THEN u ELSE [u EXCEPT !.frees[x] = @ + 1]

\* lyd_free_attr(ctx, node->attr, 1): the list is cut from its node and
\* every attribute of it freed
lyd_free_attr(h, x) ==
    IF h.halted \/ h.node[x].attr = 0 THEN h
    ELSE [h EXCEPT !.node[x].attr = 0]

\* the loop of lyd_unlink_tree that finds the first sibling of a last
\* top-level node: iter = node->prev; while (iter->prev != node) ...
RECURSIVE first_of(_, _, _)
first_of(h, iter, node) ==
    IF h.node[iter].prev = node THEN iter
    ELSE first_of(h, h.node[iter].prev, node)

\* lyd_unlink_tree that leaves the first sibling's prev as it was when the
\* last sibling is unlinked
lyd_unlink_tree_stale_last(h, node) ==
    IF h.halted THEN h
    ELSE
    LET n == h.node[node]
        h1 == IF h.node[n.prev].next # 0
              THEN [h EXCEPT !.node[n.prev].next = n.next] ELSE h
        h2 == IF n.next # 0 THEN [h1 EXCEPT !.node[n.next].prev = n.prev]
              ELSE h1
        h3 == IF n.parent # 0
              THEN [h2 EXCEPT !.node[n.parent].child =
                                  IF @ = node THEN n.next ELSE @,
                              !.node[node].parent = 0]
              ELSE h2
    IN [h3 EXCEPT !.node[node].next = 0, !.node[node].prev = node]

\* lyd_unlink_tree(node), node non-NULL; the hash table of the parent's
\* children (lyd_unlink_hash) is state of hash_table.c
lyd_unlink_tree(h, node) ==
    IF h.halted THEN h
    ELSE
    LET n == h.node[node]
        h1 == IF h.node[n.prev].next # 0
              THEN [h EXCEPT !.node[n.prev].next = n.next] ELSE h
        h2 == IF n.next # 0 THEN [h1 EXCEPT !.node[n.next].prev = n.prev]
              ELSE LET iter == IF n.parent # 0 THEN h1.node[n.parent].child
                               ELSE first_of(h1, n.prev, node)
                   IN [h1 EXCEPT !.node[iter].prev = n.prev]
        h3 == IF n.parent # 0
              THEN [h2 EXCEPT !.node[n.parent].child =
                                  IF @ = node THEN n.next ELSE @,
                              !.node[node].parent = 0]
              ELSE h2
    IN [h3 EXCEPT !.node[node].next = 0, !.node[node].prev = node]

RECURSIVE lyd_free_subtree(_, _, _, _)
RECURSIVE lyd_free_children(_, _, _)

\* LY_LIST_FOR_SAFE(children, next, iter) { lyd_free_subtree(ctx, iter, 0); }
\* next is read from iter before the body runs
lyd_free_children(h, iter, crash) ==
    IF iter = 0 \/ h.halted THEN h
    ELSE LET h0 == deref(h, iter, crash)
             next == h.node[iter].next
         IN lyd_free_children(lyd_free_subtree(h0, iter, FALSE, crash),
                              next, crash)

\* lyd_free_subtree(ctx, node, top): the children of an inner node, the
\* attributes, the unlinking of a top node, then free(node); the value of a
\* term node is a dictionary string (FREE_STRING)
lyd_free_subtree(h, node, top, crash) ==
    IF h.halted THEN h
    ELSE
    LET h0 == deref(h, node, crash)
        h1 == IF h.node[node].nodetype = "LYD_NODE_INNER"
              THEN lyd_free_children(h0, h.node[node].child, crash)
              ELSE h0
        h2 == lyd_free_attr(h1, node)
        h3 == IF top THEN lyd_unlink_tree(h2, node) ELSE h2
    IN free(h3, node, crash)

\* for (; node->parent; node = node->parent);
RECURSIVE top_level(_, _)
top_level(h, node) ==
    IF h.node[node].parent = 0 THEN node
    ELSE top_level(h, h.node[node].parent)

\* while (node->prev->next) node = node->prev;
RECURSIVE first_sibling(_, _)
first_sibling(h, node) ==
    IF h.node[h.node[node].prev].next = 0 THEN node
    ELSE first_sibling(h, h.node[node].prev)

\* LY_LIST_FOR_SAFE(node, next, iter) { lyd_free_subtree(node->schema->
\* module->ctx, node, node->parent ? 1 : 0); }: iter walks the siblings,
\* the body names node
RECURSIVE lyd_free_all_loop(_, _, _, _)
lyd_free_all_loop(h, node, iter, crash) ==
    IF iter = 0 \/ h.halted THEN h
    ELSE LET h0 == deref(h, iter, crash)
             next == h.node[iter].next
             h1 == deref(h0, node, crash)
             top == h.node[node].parent # 0
         IN lyd_free_all_loop(lyd_free_subtree(h1, node, top, crash),
                              node, next, crash)

\* lyd_free_all(node); 0 is NULL
lyd_free_all(h, node, crash) ==
    IF node = 0 THEN h
    ELSE LET first == first_sibling(h, top_level(h, node))
         IN lyd_free_all_loop(h, first, first, crash)

\* lyd_free_tree that frees the subtree without unlinking its root
lyd_free_tree_linked(h, node, crash) ==
    IF node = 0 THEN h ELSE lyd_free_subtree(h, node, FALSE, crash)

\* lyd_free_tree(node)
lyd_free_tree(h, node, crash) ==
    IF node = 0 THEN h ELSE lyd_free_subtree(h, node, TRUE, crash)

(* ------------------------------ SpecTree ------------------------------- *)
InitTree ==
    /\ \E n \in 1..MaxNodes :
          \E p \in Shapes(n), kinds \in [1..n -> NodeKinds], attr \in 0..1 :
             /\ \A i \in 1..n :
                   (\E j \in 1..n : p[j] = i) => kinds[i] = "LYD_NODE_INNER"
             /\ heap = NewForest(p, kinds, [i \in 1..n |-> attr])
    /\ out = lyp_new("LYP_OUT_FD", << >>, 0)
    /\ ref = << >>
    /\ rt = << >>
    /\ last = NoCall
    /\ req = 0
    /\ expected = << >>
    /\ pending = {}
    /\ clean = TRUE
    /\ bnd = << >>

Intact == heap.fault = "none"

\* the nodes a caller may still name
Allocated(h) == {x \in DOMAIN h.node : h.frees[x] = 0}

Called(h, op, given, ret) == [h EXCEPT !.op = op, !.given = given, !.ret = ret]

RestTree == <<out, ref, rt, last, req, expected, pending, clean, bnd>>

UnlinkTreeCall ==
    /\ Intact
    /\ \E node \in Allocated(heap) \cup {0} :
          heap' = IF node = 0
                  THEN Called(heap, "lyd_unlink_tree", node, "LY_EINVAL")
                  ELSE Called(lyd_unlink_tree(heap, node), "lyd_unlink_tree",
                              node, "EXIT_SUCCESS")
    /\ UNCHANGED RestTree

FreeTreeCall ==
    /\ Intact
    /\ \E node \in Allocated(heap) \cup {0}, crash \in BOOLEAN :
          heap' = Called(lyd_free_tree(heap, node, crash), "lyd_free_tree",
                         node, "none")
    /\ UNCHANGED RestTree

FreeAllCall ==
    /\ Intact
    /\ \E node \in Allocated(heap) \cup {0}, crash \in BOOLEAN :
          heap' = Called(lyd_free_all(heap, node, crash), "lyd_free_all",
                         node, "none")
    /\ UNCHANGED RestTree

NextTree ==
    \/ UnlinkTreeCall
    \/ FreeTreeCall
    \/ FreeAllCall

SpecTree == InitTree /\ [][NextTree]_vars

(* ----------------- C16: lyd_free_all frees the forest once ------------- *)
\* the forest of node: the top-level siblings of its root and all their
\* descendants
ForestOf(h, node) ==
    {x \in Allocated(h) :
        first_sibling(h, top_level(h, x)) = first_sibling(h, top_level(h, node))}

\* C16: lyd_free_all(node), for any node of a forest with any number of
\* top-level siblings, frees every node of the forest exactly once and no
\* other node: no leak, no double free, no read after free.
C16_FreeAllFreesForestOnce ==
    Intact =>
        \A node \in Allocated(heap), crash \in BOOLEAN :
            LET r == lyd_free_all(heap, node, crash) IN
            /\ r.fault = "none"
            /\ \A x \in DOMAIN heap.node :
                  r.frees[x] = IF x \in ForestOf(heap, node) THEN 1
                               ELSE heap.frees[x]

\* the part that holds: a forest of one top-level tree is freed once
C16_SingleTreeFreedOnce ==
    Intact =>
        \A node \in Allocated(heap), crash \in BOOLEAN :
            LET first == first_sibling(heap, top_level(heap, node))
                r == lyd_free_all(heap, node, crash) IN
            heap.node[first].next = 0 =>
                /\ r.fault = "none"
                /\ \A x \in DOMAIN heap.node :
                      r.frees[x] = IF x \in ForestOf(heap, node) THEN 1
                                   ELSE heap.frees[x]

(* ----------------- C17: the last backfill drains the hole buffer ------- *)
\* C17: on a non-memory sink, the backfill that brings the hole count to
\* zero hands the whole hole buffer, the backfilled bytes in place, to the
\* target in one raw write; the buffer's length becomes zero whatever the
\* target answers; printed grows by the buffer's length, once, when the
\* target took it and not at all otherwise. Over a run of writes,
\* reservations and exact backfills the counter then stands at the bytes
\* reserved plus the bytes written, each counted once.
C17_LastBackfillDrains ==
    /\ (Live /\ out.type # "LYP_OUT_MEMORY" /\ out.status = "LY_SUCCESS"
             /\ out.hole_count = 1) =>
          \A position \in 0..out.buf_len, buf \in Bufs :
              position + Len(buf) <= out.buf_len =>
                  LET filled == memcpy(SubSeq(out.buffered, 1, out.buf_len),
                                       position, buf)
                  IN \A script \in ScriptChoices(out, TRUE, out.buf_len) :
                        LET r == ly_write_skipped(out, position, buf, script, FALSE)
                        IN /\ r.o.hole_count = 0
                           /\ r.o.buf_len = 0
                           /\ r.ret = "LY_SUCCESS" =>
                                 /\ r.o.target = out.target \o filled
                                 /\ r.o.printed = out.printed + out.buf_len
                           /\ r.ret # "LY_SUCCESS" => r.o.printed = out.printed
                           /\ script = FullScript(out.buf_len) =>
                                 /\ r.ret = "LY_SUCCESS"
                                 /\ r.o.calls = out.calls + 1
    /\ (Live /\ clean /\ out.type # "LYP_OUT_MEMORY" /\ out.hole_count = 0) =>
          /\ out.buf_len = 0
          /\ out.printed = req

\* an episode ended by its last backfill: the target holds the bytes of
\* the hole buffer and each is counted once
C17_Witness ==
    /\ Live /\ clean /\ out.type # "LYP_OUT_MEMORY"
    /\ last.op = "ly_write_skipped" /\ last.ret = "LY_SUCCESS"
    /\ out.hole_count = 0 /\ out.buf_len = 0
    /\ out.printed = MaxOut /\ req = MaxOut
    /\ Len(out.target) = MaxOut

(* ----------------- C18: a flush releases the hole buffer --------------- *)
\* C18: after ly_print_flush on a sink of any variant, holes outstanding
\* or not, the hole buffer's allocation is released and its size and
\* length are zero; what it held is discarded, the target receiving none
\* of it.
C18_FlushReleasesHoleBuffer ==
    Live =>
        \A w \in FlushRuns(out) :
            /\ w.o.fault = "none"
            /\ w.o.bstate # "valid"
            /\ w.o.buffered = << >>
            /\ w.o.buf_size = 0 /\ w.o.buf_len = 0
            /\ w.o.target = out.target

(* ----------------- C19: a failed write-path call marks the sink -------- *)
\* the call returned a result other than success
Failed(w) == w.o.fault = "none" /\ w.ret # "LY_SUCCESS"

\* the status is set and every later write-path call fails at once,
\* touching neither the target nor the buffers
Marked(w) ==
    /\ w.o.status # "LY_SUCCESS"
    /\ \A n \in WriteRuns(w.o) \cup PrintRuns(w.o) \cup SkippedRuns(w.o) :
          Inert(w.o, n)
    /\ \A n \in SkipRuns(w.o) : Inert(w.o, n)

\* C19: every formatted write, raw write, reservation and backfill that
\* returns a result other than success, a failed growth of a buffer
\* included, leaves the status set, and every later write-path call fails
\* at once without touching the target, the memory buffer or the hole
\* buffer.
C19_FailureMarksSink ==
    (Live /\ out.status = "LY_SUCCESS") =>
        /\ \A w \in WriteRuns(out) \cup PrintRuns(out) \cup SkippedRuns(out) :
              Failed(w) => Marked(w)
        /\ \A w \in SkipRuns(out) : Failed(w) => Marked(w)

(* ----------------- C20: no use of the hole buffer after its release ---- *)
\* C20: once a flush has released the hole buffer, no later reservation,
\* raw write, backfill or flush hands the released allocation to realloc
\* or to free again, writes into it or transmits it.
C20_ReleasedBufferNeverUsed ==
    (Live /\ out.bstate = "freed") =>
        /\ \A w \in WriteRuns(out) \cup SkippedRuns(out) \cup FlushRuns(out) :
              w.o.fault \notin {"use-after-free", "double-free"}
        /\ \A w \in SkipRuns(out) :
              w.o.fault \notin {"use-after-free", "double-free"}

(* ----------------- C21: no hole, nothing buffered ---------------------- *)
\* C21: in every reachable state of a sink, a hole count of zero implies
\* that the hole buffer's logical length is zero; no byte of an earlier
\* episode of reservations and backfills remains in it.
C21_NoHoleNothingBuffered ==
    Live => (out.hole_count = 0 => out.buf_len = 0)

(* ----------------- C22: the hole count is a balance -------------------- *)
\* C22: on a non-memory sink the hole count is the number of successful
\* reservations less the number of successful backfills and never goes
\* below zero: a successful reservation adds one, a successful backfill
\* finds a hole outstanding and takes one off, and a backfill with no
\* reservation outstanding leaves the count at zero.
C22_HoleCountIsBalance ==
    (Live /\ out.type # "LYP_OUT_MEMORY") =>
        /\ \A w \in SkipRuns(out) :
              (w.o.fault = "none" /\ w.ret = "LY_SUCCESS"
                   /\ out.hole_count # SizeT(0 - 1)) =>
                  w.o.hole_count = out.hole_count + 1
        /\ \A w \in SkippedRuns(out) :
              /\ w.ret = "LY_SUCCESS" =>
                    /\ out.hole_count > 0
                    /\ w.o.hole_count = out.hole_count - 1
              /\ out.hole_count = 0 => w.o.hole_count = 0

(* ----------------- C23: lyd_unlink_tree keeps the lists well-formed ---- *)
\* the siblings from x on, following next
RECURSIVE ListFrom(_, _)
ListFrom(h, x) == IF x = 0 THEN << >> ELSE <<x>> \o ListFrom(h, h.node[x].next)

\* the sibling list x stands in, first to last
SiblingsOf(h, x) == ListFrom(h, first_sibling(h, x))

Without(seq, x) == SelectSeq(seq, LAMBDA y : y # x)

\* seq is a well-formed sibling list of h under parent: next leads from
\* each to the following one and is NULL in the last, prev leads back and
\* from the first to the last, and the parent's child pointer is the first
ListOK(h, seq, parent) ==
    /\ \A i \in 1..Len(seq) :
          /\ h.frees[seq[i]] = 0
          /\ h.node[seq[i]].parent = parent
          /\ h.node[seq[i]].next = IF i < Len(seq) THEN seq[i + 1] ELSE 0
          /\ h.node[seq[i]].prev = IF i > 1 THEN seq[i - 1] ELSE seq[Len(seq)]
    /\ parent # 0 =>
          h.node[parent].child = IF seq = << >> THEN 0 ELSE seq[1]

\* every allocated node stands in a well-formed list of allocated nodes
\* under an allocated parent (or none), and so do its children
WellFormed(h) ==
    \A x \in Allocated(h) :
        /\ h.node[x].parent \in Allocated(h) \cup {0}
        /\ h.node[x].prev \in Allocated(h)
        /\ h.node[x].next \in Allocated(h) \cup {0}
        /\ h.node[x].child \in Allocated(h) \cup {0}
        /\ h.node[h.node[x].prev].next \in {x, 0}
        /\ h.node[x].next # 0 => h.node[h.node[x].next].prev = x
        /\ h.node[x].child # 0 => h.node[h.node[x].child].parent = x
        /\ ListOK(h, SiblingsOf(h, x), h.node[x].parent)

RECURSIVE InSubtree(_, _, _)
InSubtree(h, x, node) ==
    \/ x = node
    \/ h.node[x].parent # 0 /\ InSubtree(h, h.node[x].parent, node)

\* C24: lyd_free_tree(node) frees node and each of its descendants exactly
\* once and no other node, and leaves the rest well-formed: the former
\* siblings are the same list without node under the same parent, and no
\* allocated node points to a freed one.
C24_FreeTreeFreesSubtreeOnce ==
    Intact =>
        \A node \in Allocated(heap), crash \in BOOLEAN :
            LET r == lyd_free_tree(heap, node, crash)
                rest == Without(SiblingsOf(heap, node), node)
                parent == heap.node[node].parent
            IN /\ r.fault = "none"
               /\ \A x \in DOMAIN heap.node :
                     r.frees[x] = IF x \in Allocated(heap) /\ InSubtree(heap, x, node)
                                  THEN 1 ELSE heap.frees[x]
               /\ ListOK(r, rest, parent)
               /\ WellFormed(r)
               /\ \A x \in Allocated(r) :
                     /\ r.node[x].parent = heap.node[x].parent
                     /\ x # parent => r.node[x].child = heap.node[x].child

\* a node with a child was freed, both of them once, and a node of the
\* forest outside the subtree is still allocated
C24_Witness ==
    /\ Intact
    /\ heap.op = "lyd_free_tree" /\ heap.given # 0
    /\ heap.frees[heap.given] = 1
    /\ \E c \in DOMAIN heap.node :
          heap.node[c].parent = heap.given /\ heap.frees[c] = 1
    /\ Allocated(heap) # {}

====
